---- MODULE Spec2Model ----
(***************************************************************************)
(* Model of the coDECLARE -> LTLf contract builder (package codeclare).    *)
(*                                                                         *)
(* A Python str is modelled as a sequence of one-character strings, so     *)
(* that the regular-expression scan of _atoms_in, the str.replace of       *)
(* _clean, str.join and the f-strings are computed character by character. *)
(* Template names are only ever compared, and are kept as TLA+ strings.    *)
(***************************************************************************)
EXTENDS Integers, Sequences, FiniteSets, TLC

(***************************************************************************)
(* Bounds of the model.                                                    *)
(***************************************************************************)
\* longest environment list and longest system list
MaxProps == 1
\* longest activity list of a constraint descriptor
MaxActs == 3
\* number of constraint descriptors of a specification (both sections)
MaxCons == 2
\* longest proposition list of a specification without constraints
MaxSemProps == 2

(***************************************************************************)
(* Python string primitives.                                               *)
(***************************************************************************)
LowerLetters ==
    {"a", "b", "c", "d", "e", "f", "g", "h", "i", "j", "k", "l", "m",
     "n", "o", "p", "q", "r", "s", "t", "u", "v", "w", "x", "y", "z"}

UpperLetters ==
    {"A", "B", "C", "D", "E", "F", "G", "H", "I", "J", "K", "L", "M",
     "N", "O", "P", "Q", "R", "S", "T", "U", "V", "W", "X", "Y", "Z"}

Digits == {"0", "1", "2", "3", "4", "5", "6", "7", "8", "9"}

\* the class [A-Za-z_] of the regular expression of _atoms_in
IdStart == LowerLetters \cup UpperLetters \cup {"_"}

\* the class [A-Za-z0-9_] of the regular expression of _atoms_in
IdChar == IdStart \cup Digits

\* str.strip() removes these; a string of them alone is blank
Whitespace == {" "}

\* sep.join(parts)
RECURSIVE Join(_, _)
Join(sep, parts) ==
    IF Len(parts) = 0 THEN << >>
    ELSE IF Len(parts) = 1 THEN parts[1]
    ELSE parts[1] \o sep \o Join(sep, Tail(parts))

\* s[i:].startswith(pat), i counted from 1
StartsWithAt(s, i, pat) ==
    /\ i + Len(pat) - 1 <= Len(s)
    /\ \A k \in 1..Len(pat) : s[i + k - 1] = pat[k]

\* s.replace(old, ""): non-overlapping occurrences, scanned left to right
RECURSIVE RemoveAllFrom(_, _, _)
RemoveAllFrom(s, i, old) ==
    IF i > Len(s) THEN << >>
    ELSE IF StartsWithAt(s, i, old) THEN RemoveAllFrom(s, i + Len(old), old)
    ELSE <<s[i]>> \o RemoveAllFrom(s, i + 1, old)

\* the end of the longest run of [A-Za-z0-9_] that starts at position i
RECURSIVE TokenEnd(_, _)
TokenEnd(s, i) ==
    IF i + 1 <= Len(s) /\ s[i + 1] \in IdChar THEN TokenEnd(s, i + 1) ELSE i

\* the start of the longest run of [A-Za-z0-9_] that ends at position i
RECURSIVE RunStart(_, _)
RunStart(s, i) ==
    IF i > 1 /\ s[i - 1] \in IdChar THEN RunStart(s, i - 1) ELSE i

\* re.findall(r"[A-Za-z_][A-Za-z0-9_]*", s), as the set of its matches.  The
\* left-to-right scan starts a match at the first [A-Za-z_] of every run of
\* [A-Za-z0-9_] (digits that lead the run are skipped) and ends it with the
\* run.
FindTokens(s) ==
    {SubSeq(s, i, TokenEnd(s, i)) :
        i \in {n \in 1..Len(s) :
                  /\ s[n] \in IdStart
                  /\ \A k \in RunStart(s, n)..(n - 1) : s[k] \notin IdStart}}

(***************************************************************************)
(* semantics.py                                                            *)
(***************************************************************************)
\* Negs without the test j != i: the proposition negates itself too
RECURSIVE Negs_all(_, _, _)
Negs_all(props, i, j) ==
    IF j > Len(props) THEN << >>
    ELSE <<(<<"!">> \o props[j])>> \o Negs_all(props, i, j + 1)

\* the list of "!q" for every position j # i
RECURSIVE Negs(_, _, _)
Negs(props, i, j) ==
    IF j > Len(props) THEN << >>
    ELSE IF j = i THEN Negs(props, i, j + 1)
    ELSE <<(<<"!">> \o props[j])>> \o Negs(props, i, j + 1)

ExactlyOneTerm(props, i) ==
    LET negs == Negs(props, i, 1)
    IN  <<"(">> \o props[i]
        \o (IF Len(negs) > 0
            THEN <<" ", "&", "&", " ">> \o Join(<<" ", "&", "&", " ">>, negs)
            ELSE << >>)
        \o <<")">>

_exactly_one(props) ==
    IF Len(props) = 0 THEN <<"t", "r", "u", "e">>
    ELSE <<"(">>
         \o Join(<<" ", "|", "|", " ">>,
                 [i \in 1..Len(props) |-> ExactlyOneTerm(props, i)])
         \o <<")">>

simple_trace_semantics(props) ==
    <<"G", "(">> \o _exactly_one(props) \o <<")">>

\* AnyOf with the constant true for the empty list
AnyOf_true(props) ==
    IF Len(props) > 0
    THEN <<"(">> \o Join(<<" ", "|", "|", " ">>, props) \o <<")">>
    ELSE <<"t", "r", "u", "e">>

\* env_any and sys_any of strict_alternation: the disjunction of a list
AnyOf(props) ==
    IF Len(props) > 0
    THEN <<"(">> \o Join(<<" ", "|", "|", " ">>, props) \o <<")">>
    ELSE <<"f", "a", "l", "s", "e">>

strict_alternation(env, sys) ==
    LET env_any == AnyOf(env)
        sys_any == AnyOf(sys)
    IN  <<"G", "(", "(">> \o env_any \o <<")", " ", "-", ">", " ", "X", "(">>
        \o sys_any \o <<")", ")", " ", "&", "&", " ", "G", "(", "(">>
        \o sys_any \o <<")", " ", "-", ">", " ", "X", "(">> \o env_any
        \o <<")", ")">>

(***************************************************************************)
(* ltlf_generator.py                                                       *)
(***************************************************************************)
\* self.supported of LTLfGenerator
supported ==
    {"next_a", "eventually_a", "eventually_a_then_b", "eventually_a_or_b",
     "eventually_a_next_b", "eventually_a_then_b_then_c",
     "eventually_a_next_b_next_c", "is_first_state_a", "is_second_state_a",
     "is_third_state_a", "last", "second_last", "third_last",
     "is_last_state_a", "is_second_last_state_a", "is_third_last_state_a",
     "precedence", "chain_precedence", "responded_existence",
     "chain_response", "not_chain_precedence", "not_chain_response",
     "response", "not_precedence", "not_response",
     "not_responded_existence", "alternate_response", "alternate_precedence",
     "absence2", "neg_succession", "not_coexistence", "succession"}

\* the templates generate() sends to _manual
ManualTemplates == {"absence2", "neg_succession", "not_coexistence", "succession"}

\* the outcome of building one formula string: the string, or the exception
Ok(s) == [ok |-> TRUE, s |-> s, err |-> "none"]
Raise(e) == [ok |-> FALSE, s |-> << >>, err |-> e]

\* module-level _clean: formula_str.replace("con_", "")
_clean(formula_str) == RemoveAllFrom(formula_str, 1, <<"c", "o", "n", "_">>)

\* _manual with the until of succession written without its parentheses
_manual_bare_until(name, acts) ==
    IF name = "absence2" THEN
        IF Len(acts) # 1 THEN Raise("ValueError")
        ELSE Ok(<<"!", "F", "(">> \o acts[1]
                \o <<" ", "&", "&", " ", "X", "(", "F", "(">> \o acts[1]
                \o <<")", ")", ")">>)
    ELSE IF name = "neg_succession" THEN
        IF Len(acts) # 2 THEN Raise("ValueError")
        ELSE Ok(<<"G", "(">> \o acts[1]
                \o <<" ", "-", ">", " ", "!", "F", "(">> \o acts[2]
                \o <<")", ")">>)
    ELSE IF name = "not_coexistence" THEN
        IF Len(acts) # 2 THEN Raise("ValueError")
        ELSE Ok(<<"!", "(", "(", "F", "(">> \o acts[1]
                \o <<")", ")", " ", "&", "&", " ", "(", "F", "(">> \o acts[2]
                \o <<")", ")", ")">>)
    ELSE IF name = "succession" THEN
        IF Len(acts) # 2 THEN Raise("ValueError")
        ELSE Ok(<<"G", "(">> \o acts[1]
                \o <<" ", "-", ">", " ", "F", "(">> \o acts[2]
                \o <<")", ")", " ", "&", "&", " ", "!">> \o acts[2]
                \o <<" ", "U", " ">> \o acts[1])
    ELSE Raise("KeyError")

\* LTLfGenerator._manual; a tuple unpacking of the wrong length raises ValueError
_manual(name, acts) ==
    IF name = "absence2" THEN
        IF Len(acts) # 1 THEN Raise("ValueError")
        ELSE Ok(<<"!", "F", "(">> \o acts[1]
                \o <<" ", "&", "&", " ", "X", "(", "F", "(">> \o acts[1]
                \o <<")", ")", ")">>)
    ELSE IF name = "neg_succession" THEN
        IF Len(acts) # 2 THEN Raise("ValueError")
        ELSE Ok(<<"G", "(">> \o acts[1]
                \o <<" ", "-", ">", " ", "!", "F", "(">> \o acts[2]
                \o <<")", ")">>)
    ELSE IF name = "not_coexistence" THEN
        IF Len(acts) # 2 THEN Raise("ValueError")
        ELSE Ok(<<"!", "(", "(", "F", "(">> \o acts[1]
                \o <<")", ")", " ", "&", "&", " ", "(", "F", "(">> \o acts[2]
                \o <<")", ")", ")">>)
    ELSE IF name = "succession" THEN
        IF Len(acts) # 2 THEN Raise("ValueError")
        ELSE Ok(<<"G", "(">> \o acts[1]
                \o <<" ", "-", ">", " ", "F", "(">> \o acts[2]
                \o <<")", ")", " ", "&", "&", " ", "(", "!">> \o acts[2]
                \o <<")", " ", "U", " ">> \o acts[1])
    ELSE Raise("KeyError")

\* The text the template library returns for response(source, target): the
\* formula of the template over the two activities, each carrying the
\* library's "con_" prefix.
LibraryResponse(source, target) ==
    <<"G", "(", "c", "o", "n", "_">> \o source
    \o <<" ", "-", ">", " ", "F", "(", "c", "o", "n", "_">> \o target
    \o <<")", ")">>

\* LTLfGenerator._declare4py for the library template "response": the
\* library rejects a call with no target (TypeError), two activities go to
\* the library as (source, target), three or more are formatted here.
_declare4py(template_name, acts) ==
    IF Len(acts) = 0 THEN Raise("TypeError")
    ELSE IF Len(acts) = 1 THEN Raise("TypeError")
    ELSE IF Len(acts) = 2 THEN Ok(_clean(LibraryResponse(acts[1], acts[2])))
    ELSE IF Len(acts) >= 3 /\ template_name = "response" THEN
        Ok(<<"G", "(">> \o acts[1] \o <<" ", "-", ">", " ", "F", "(">>
           \o Join(<<" ", "|", "|", " ">>, Tail(acts)) \o <<")", ")">>)
    ELSE Raise("ValueError")

\* the formula string of one descriptor, as the try block of generate builds it
BuildString(name, acts) ==
    IF name \in ManualTemplates THEN _manual(name, acts)
    ELSE _declare4py(name, acts)

\* The strings the formula parser rejects: those in which one of the unary
\* temporal operators G, F, X stands as a word of its own without an
\* argument list after it (an operator used as an operand).
Unparsable(s) ==
    \E i \in 1..Len(s) :
        /\ s[i] \in {"G", "F", "X"}
        /\ (i = 1 \/ s[i - 1] \notin IdChar)
        /\ (i = Len(s) \/ s[i + 1] \notin IdChar \cup {"("})

\* parse_ltlf(s): the identity when no parser was found at import time, and
\* otherwise the parser's object, or its exception
parse_ltlf(p, s) ==
    IF p = "raw" THEN Ok(s)
    ELSE IF Unparsable(s) THEN Raise("ParseError")
    ELSE Ok(<<"A", "S", "T", ":">> \o s)

\* GenerateOne without the try/except around the expansion: the exception
\* of a failing descriptor leaves generate()
GenerateOne_unguarded(acc, c, p) ==
    LET name == c.template
        acts == c.activities
    IN  IF name \notin supported
        THEN [acc EXCEPT !.log = Append(@, [kind |-> "skip", template |-> name,
                                            activities |-> acts, err |-> "unknown"])]
        ELSE LET b == BuildString(name, acts)
                 o == IF b.ok THEN parse_ltlf(p, b.s) ELSE b
             IN  IF o.ok
                 THEN [acc EXCEPT !.results =
                          Append(@, [template |-> name, activities |-> acts,
                                     obj |-> o.s, ltlf |-> b.s])]
                 ELSE [acc EXCEPT !.raised = TRUE]

\* One iteration of the loop of generate() on descriptor c, with parse_ltlf
\* bound to p: appends to results, or prints (log) and goes on.  Template
\* names arrive in lower case from load_spec, so c["template"].lower() is
\* the name itself.
GenerateOne(acc, c, p) ==
    LET name == c.template
        acts == c.activities
    IN  IF name \notin supported
        THEN [acc EXCEPT !.log = Append(@, [kind |-> "skip", template |-> name,
                                            activities |-> acts, err |-> "unknown"])]
        ELSE LET b == BuildString(name, acts)
                 o == IF b.ok THEN parse_ltlf(p, b.s) ELSE b
             IN  IF o.ok
                 THEN [acc EXCEPT !.results =
                          Append(@, [template |-> name, activities |-> acts,
                                     obj |-> o.s, ltlf |-> b.s])]
                 ELSE [acc EXCEPT !.log =
                          Append(@, [kind |-> "error", template |-> name,
                                     activities |-> acts, err |-> o.err])]

\* the loop "for c in self.constraints" from position i on
RECURSIVE GenerateFrom(_, _, _, _)
GenerateFrom(acc, constraints, i, p) ==
    IF i > Len(constraints) \/ acc.raised THEN acc
    ELSE GenerateFrom(GenerateOne(acc, constraints[i], p), constraints, i + 1, p)

\* LTLfGenerator(constraints).generate()
generate(constraints, p) ==
    GenerateFrom([results |-> << >>, log |-> << >>, raised |-> FALSE],
                 constraints, 1, p)

(***************************************************************************)
(* contract_builder.py                                                     *)
(***************************************************************************)
IsBlank(p) == \A k \in 1..Len(p) : p[k] \in Whitespace

\* _conj joining with && but without the parentheses around each part
_conj_unwrapped(parts) ==
    LET kept == SelectSeq(parts, LAMBDA p : Len(p) > 0 /\ ~IsBlank(p))
    IN  IF Len(kept) = 0 THEN <<"t", "r", "u", "e">>
        ELSE Join(<<" ", "&", "&", " ">>, kept)

\* _conj: the non-blank parts, each in parentheses, joined by &&
_conj(parts) ==
    LET kept == SelectSeq(parts, LAMBDA p : Len(p) > 0 /\ ~IsBlank(p))
    IN  IF Len(kept) = 0 THEN <<"t", "r", "u", "e">>
        ELSE <<"(">> \o Join(<<")", " ", "&", "&", " ", "(">>, kept) \o <<")">>

_OPS ==
    {<<"G">>, <<"F">>, <<"X">>, <<"U">>, <<"W">>, <<"R">>,
     <<"t", "r", "u", "e">>, <<"f", "a", "l", "s", "e">>,
     <<"&", "&">>, <<"|", "|">>, <<"-", ">">>, <<"<", "-", ">">>,
     <<"!">>, <<"(">>, <<")">>}

_atoms_in(formula) == {t \in FindTokens(formula) : t \notin _OPS}

SeqToSet(s) == {s[k] : k \in 1..Len(s)}

directed_to_sys ==
    {"response", "chain_response", "alternate_response",
     "precedence", "chain_precedence", "alternate_precedence",
     "succession", "weak_link"}

\* the closure classify(c) of _auto_reclassify, with its env and sys
classify(c, env, sys) ==
    LET env_set == SeqToSet(env)
        sys_set == SeqToSet(sys)
        aps == _atoms_in(c.ltlf)
        has_env == \E a \in aps : a \in env_set
        has_sys == \E a \in aps : a \in sys_set
    IN  IF has_env /\ ~has_sys THEN "A"
        ELSE IF has_sys /\ ~has_env THEN "G"
        ELSE IF c.template \in directed_to_sys THEN "G" ELSE "G"

\* the loop inserting at the front of the output lists instead of appending
RECURSIVE ReclassifyFrom_prepend(_, _, _, _, _)
ReclassifyFrom_prepend(all, i, acc, env, sys) ==
    IF i > Len(all) THEN acc
    ELSE LET c == all[i]
         IN  ReclassifyFrom_prepend(all, i + 1,
                 IF classify(c, env, sys) = "A"
                 THEN <<(<<c>> \o acc[1]), acc[2]>>
                 ELSE <<acc[1], (<<c>> \o acc[2])>>,
                 env, sys)

\* the loop "for c in A_gen + G_gen" from position i on
RECURSIVE ReclassifyFrom(_, _, _, _, _)
ReclassifyFrom(all, i, acc, env, sys) ==
    IF i > Len(all) THEN acc
    ELSE LET c == all[i]
         IN  ReclassifyFrom(all, i + 1,
                 IF classify(c, env, sys) = "A"
                 THEN <<Append(acc[1], c), acc[2]>>
                 ELSE <<acc[1], Append(acc[2], c)>>,
                 env, sys)

\* _auto_reclassify looping over G_gen + A_gen
_auto_reclassify_GA(A, G, env, sys) ==
    ReclassifyFrom(G \o A, 1, << << >>, << >> >>, env, sys)

\* _auto_reclassify returns the pair (newA, newG)
_auto_reclassify(A, G, env, sys) ==
    ReclassifyFrom(A \o G, 1, << << >>, << >> >>, env, sys)

\* the inner _clean of build_contract: a copy of each record without "obj"
CleanRecords(constraints) ==
    [k \in 1..Len(constraints) |->
        [template |-> constraints[k].template,
         activities |-> constraints[k].activities,
         ltlf |-> constraints[k].ltlf]]

Formulas(constraints) == [k \in 1..Len(constraints) |-> constraints[k].ltlf]

\* lines 72-102 of build_contract, from the reclassified lists
Contract(A, G, env, sys) ==
    LET A_text == _conj(Formulas(A))
        G_text == _conj(Formulas(G))
        env_sem == simple_trace_semantics(env)
        sys_sem == simple_trace_semantics(sys)
        alt == strict_alternation(env, sys)
        left == _conj(<<A_text, env_sem, alt>>)
        right == _conj(<<G_text, sys_sem, alt>>)
    IN  [assumptions_list |-> CleanRecords(A),
         guarantees_list |-> CleanRecords(G),
         env_semantics |-> env_sem,
         sys_semantics |-> sys_sem,
         alternation |-> alt,
         contract_ltlf |-> <<"(">> \o left \o <<")", " ", "-", ">", " ", "(">>
                           \o right \o <<")">>,
         environment |-> env,
         system |-> sys]

(***************************************************************************)
(* The inputs: a validated specification, as load_spec hands it over.      *)
(***************************************************************************)
\* Proposition names: a plain one, one that is also the name of a temporal
\* operator, and one that contains the library's prefix.
Names == {<<"a">>, <<"F">>, <<"c", "o", "n", "_", "b">>}

\* Template names: the four manual ones, the library's response, and one
\* outside the supported set.
Templates ==
    {"absence2", "neg_succession", "not_coexistence", "succession",
     "response", "bogus"}

RECURSIVE SeqsUpTo(_, _)
SeqsUpTo(S, n) ==
    IF n = 0 THEN {<< >>}
    ELSE LET shorter == SeqsUpTo(S, n - 1)
         IN  shorter \cup {Append(q, x) : q \in shorter, x \in S}

NoRepeat(q) == \A i, j \in 1..Len(q) : i # j => q[i] # q[j]

\* environment and system: lists without repetition, disjoint from each other
PropLists == {q \in SeqsUpTo(Names, MaxProps) : NoRepeat(q)}

\* activity lists that do not name the same proposition twice in a row
NoStutter(q) == \A i \in 1..(Len(q) - 1) : q[i] # q[i + 1]

\* the descriptors over the propositions of a specification
Descriptors(env, sys) ==
    [template : Templates,
     activities : {q \in SeqsUpTo(SeqToSet(env) \cup SeqToSet(sys), MaxActs) :
                      NoStutter(q)}]

VARIABLES
    environment,   \* spec["environment"]
    system,        \* spec["system"]
    assumptions,   \* spec["assumptions"]
    guarantees,    \* spec["guarantees"]
    parser,        \* what parse_ltlf was bound to at import time
    pc,            \* the position of build_contract
    A_gen,         \* the local A_gen of build_contract
    G_gen,         \* the local G_gen of build_contract
    log,           \* the lines printed by generate(), in order
    result         \* the dictionary build_contract returns

vars == <<environment, system, assumptions, guarantees, parser, pc,
          A_gen, G_gen, log, result>>

NoResult == [contract_ltlf |-> << >>]

Init ==
    /\ environment \in PropLists
    /\ system \in {q \in PropLists : SeqToSet(q) \cap SeqToSet(environment) = {}}
    /\ assumptions \in SeqsUpTo(Descriptors(environment, system), MaxCons)
    /\ guarantees \in SeqsUpTo(Descriptors(environment, system),
                               MaxCons - Len(assumptions))
    /\ parser \in {"raw", "pylogics"}
    /\ pc = "generate_assumptions"
    /\ A_gen = << >>
    /\ G_gen = << >>
    /\ log = << >>
    /\ result = NoResult

\* line 66: A_gen = LTLfGenerator(spec["assumptions"]).generate()
GenerateAssumptions ==
    /\ pc = "generate_assumptions"
    /\ LET r == generate(assumptions, parser)
       IN  /\ A_gen' = r.results
           /\ log' = log \o r.log
           /\ pc' = IF r.raised THEN "raised" ELSE "generate_guarantees"
    /\ UNCHANGED <<environment, system, assumptions, guarantees, parser,
                   G_gen, result>>

\* line 67: G_gen = LTLfGenerator(spec["guarantees"]).generate()
GenerateGuarantees ==
    /\ pc = "generate_guarantees"
    /\ LET r == generate(guarantees, parser)
       IN  /\ G_gen' = r.results
           /\ log' = log \o r.log
           /\ pc' = IF r.raised THEN "raised" ELSE "reclassify"
    /\ UNCHANGED <<environment, system, assumptions, guarantees, parser,
                   A_gen, result>>

\* line 70: A_gen, G_gen = _auto_reclassify(A_gen, G_gen, env, sys)
Reclassify ==
    /\ pc = "reclassify"
    /\ LET r == _auto_reclassify(A_gen, G_gen, environment, system)
       IN  /\ A_gen' = r[1]
           /\ G_gen' = r[2]
    /\ pc' = "compose"
    /\ UNCHANGED <<environment, system, assumptions, guarantees, parser,
                   log, result>>

\* lines 72-102: the conjunctions, the axioms and the returned dictionary
Compose ==
    /\ pc = "compose"
    /\ result' = Contract(A_gen, G_gen, environment, system)
    /\ pc' = "done"
    /\ UNCHANGED <<environment, system, assumptions, guarantees, parser,
                   A_gen, G_gen, log>>

Next ==
    \/ GenerateAssumptions
    \/ GenerateGuarantees
    \/ Reclassify
    \/ Compose

Spec == Init /\ [][Next]_vars

\* The same program on specifications without constraints and with longer
\* proposition lists, for the trace-shape axioms.
SemInit ==
    /\ environment \in SeqsUpTo(Names, MaxSemProps)
    /\ system \in {q \in SeqsUpTo(Names, MaxSemProps) :
                      SeqToSet(q) \cap SeqToSet(environment) = {}}
    /\ assumptions = << >>
    /\ guarantees = << >>
    /\ parser \in {"raw", "pylogics"}
    /\ pc = "generate_assumptions"
    /\ A_gen = << >>
    /\ G_gen = << >>
    /\ log = << >>
    /\ result = NoResult

SemSpec == SemInit /\ [][Next]_vars

\* The same program on specifications with a single constraint, over every
\* activity list up to MaxActs (repetitions included), for the Expander.
ExpandInit ==
    /\ environment \in PropLists
    /\ system \in {q \in PropLists : SeqToSet(q) \cap SeqToSet(environment) = {}}
    /\ assumptions \in {<<d>> : d \in [template : Templates,
                                        activities : SeqsUpTo(Names, MaxActs)]}
    /\ guarantees = << >>
    /\ parser \in {"raw", "pylogics"}
    /\ pc = "generate_assumptions"
    /\ A_gen = << >>
    /\ G_gen = << >>
    /\ log = << >>
    /\ result = NoResult

ExpandSpec == ExpandInit /\ [][Next]_vars

(***************************************************************************)
(* Properties.                                                             *)
(***************************************************************************)
Reclassified == pc \in {"compose", "done"}

Props == SeqToSet(environment) \cup SeqToSet(system)

ActsOf(c) == SeqToSet(c.activities)

OnlyEnv(c) == ActsOf(c) # {} /\ ActsOf(c) \subseteq SeqToSet(environment)

OnlySys(c) == ActsOf(c) # {} /\ ActsOf(c) \subseteq SeqToSet(system)

Mixed(c) ==
    /\ ActsOf(c) \cap SeqToSet(environment) # {}
    /\ ActsOf(c) \cap SeqToSet(system) # {}

Descriptor(c) == [template |-> c.template, activities |-> c.activities]

DescriptorsOf(cs) == {Descriptor(cs[k]) : k \in 1..Len(cs)}

\* C1: after reclassification a constraint over Environment propositions
\* only is in the Assumption list, and a constraint over System propositions
\* only, or over propositions of both lists, is in the Guarantee list.
C1_PlacedByPropositions ==
    Reclassified =>
        /\ \A k \in 1..Len(G_gen) : ~OnlyEnv(G_gen[k])
        /\ \A k \in 1..Len(A_gen) : ~OnlySys(A_gen[k]) /\ ~Mixed(A_gen[k])

\* all is the interleaving of x and y: every element of all goes to exactly
\* one of x and y, and both keep the order of all
RECURSIVE IsInterleaving(_, _, _)
IsInterleaving(all, x, y) ==
    IF Len(all) = 0 THEN Len(x) = 0 /\ Len(y) = 0
    ELSE \/ /\ Len(x) > 0
            /\ Head(x) = Head(all)
            /\ IsInterleaving(Tail(all), Tail(x), y)
         \/ /\ Len(y) > 0
            /\ Head(y) = Head(all)
            /\ IsInterleaving(Tail(all), x, Tail(y))

\* C2: the reclassification step splits the sequence A_gen followed by G_gen
\* into the two output lists: nothing lost, duplicated or invented, and each
\* output list in the order of that sequence.
C2_OrderPreservingPartition ==
    [][Reclassify => IsInterleaving(A_gen \o G_gen, A_gen', G_gen')]_vars

\* a constraint labelled guarantee went to the Assumption list and one
\* labelled assumption went to the Guarantee list
C2_Witness ==
    /\ pc = "compose"
    /\ Len(assumptions) = 1 /\ Len(guarantees) = 1
    /\ Len(A_gen) = 1 /\ Len(G_gen) = 1
    /\ Descriptor(A_gen[1]) = guarantees[1]
    /\ Descriptor(G_gen[1]) = assumptions[1]
    /\ assumptions[1] # guarantees[1]

\* the number of activities the templates take
ArityOk(d) ==
    CASE d.template = "absence2" -> Len(d.activities) = 1
      [] d.template \in {"neg_succession", "not_coexistence", "succession"} ->
            Len(d.activities) = 2
      [] d.template = "response" -> Len(d.activities) >= 2
      [] OTHER -> FALSE

MustDrop(d) == d.template \notin supported \/ ~ArityOk(d)

Inputs == assumptions \o guarantees

Returned == result.assumptions_list \o result.guarantees_list

Logged == {[template |-> log[k].template, activities |-> log[k].activities] :
              k \in 1..Len(log)}

RECURSIVE Wrapped(_)
Wrapped(fs) ==
    IF Len(fs) = 1 THEN <<"(">> \o fs[1] \o <<")">>
    ELSE <<"(">> \o fs[1] \o <<")", " ", "&", "&", " ">> \o Wrapped(Tail(fs))

ConjRule(fs) ==
    IF \A k \in 1..Len(fs) : IsBlank(fs[k]) THEN <<"t", "r", "u", "e">>
    ELSE Wrapped(fs)

\* C4: the returned contract is (left) -> (right), left the conjunction of
\* A_text, env_sem and alt, right the conjunction of G_text, sys_sem and alt,
\* A_text and G_text the conjunctions of the formulas of the returned lists.
C4_ContractShape ==
    pc = "done" =>
        LET A_text == ConjRule(Formulas(result.assumptions_list))
            G_text == ConjRule(Formulas(result.guarantees_list))
            left == ConjRule(<<A_text, result.env_semantics, result.alternation>>)
            right == ConjRule(<<G_text, result.sys_semantics, result.alternation>>)
        IN  result.contract_ltlf =
                <<"(">> \o left \o <<")", " ", "-", ">", " ", "(">> \o right \o <<")">>

\* one list with a formula, the other with none
C4_Witness ==
    /\ pc = "done"
    /\ Len(result.assumptions_list) = 0
    /\ Len(result.guarantees_list) = 2

Generated == A_gen \o G_gen

\* the strings of the four manual templates, with the given one for
\* not_coexistence, and of response with three or more activities
SpecifiedString(c, notCoexistence) ==
    LET a == c.activities[1]
        b == c.activities[2]
    IN  CASE c.template = "absence2" ->
                <<"!", "F", "(">> \o a \o <<" ", "&", "&", " ", "X", "(", "F", "(">>
                \o a \o <<")", ")", ")">>
          [] c.template = "neg_succession" ->
                <<"G", "(">> \o a \o <<" ", "-", ">", " ", "!", "F", "(">> \o b
                \o <<")", ")">>
          [] c.template = "not_coexistence" -> notCoexistence
          [] c.template = "succession" ->
                <<"G", "(">> \o a \o <<" ", "-", ">", " ", "F", "(">> \o b
                \o <<")", ")", " ", "&", "&", " ", "(", "!">> \o b
                \o <<")", " ", "U", " ">> \o a
          [] c.template = "response" ->
                <<"G", "(">> \o a \o <<" ", "-", ">", " ", "F", "(">>
                \o Join(<<" ", "|", "|", " ">>, Tail(c.activities)) \o <<")", ")">>

BuiltByCore(c) ==
    \/ c.template \in ManualTemplates
    \/ c.template = "response" /\ Len(c.activities) >= 3

\* C5 as stated: every generated constraint of a manual template, or of
\* response with three or more activities, has the specified string, with
\* !(F(a) && F(b)) for not_coexistence.
C5_AsStated ==
    \A k \in 1..Len(Generated) :
        LET c == Generated[k]
        IN  BuiltByCore(c) =>
                c.ltlf = SpecifiedString(c,
                    <<"!", "(", "F", "(">> \o c.activities[1]
                    \o <<")", " ", "&", "&", " ", "F", "(">> \o c.activities[2]
                    \o <<")", ")">>)

\* C5 amended: the same, with !((F(a)) && (F(b))) for not_coexistence.
C5_ExactStrings ==
    \A k \in 1..Len(Generated) :
        LET c == Generated[k]
        IN  BuiltByCore(c) =>
                c.ltlf = SpecifiedString(c,
                    <<"!", "(", "(", "F", "(">> \o c.activities[1]
                    \o <<")", ")", " ", "&", "&", " ", "(", "F", "(">>
                    \o c.activities[2] \o <<")", ")", ")">>)

\* a not_coexistence constraint over two different propositions
C5_Witness ==
    /\ pc = "reclassify"
    /\ Len(Generated) = 1
    /\ Generated[1].template = "not_coexistence"
    /\ Generated[1].activities[1] # Generated[1].activities[2]

Count(s, ch) == Cardinality({k \in 1..Len(s) : s[k] = ch})

\* C6: the returned contract formula has as many "(" as ")", and the atomic
\* propositions of the contract formula and of every returned constraint
\* are propositions of environment or system.
C6_BalancedAndClosed ==
    pc = "done" =>
        /\ Count(result.contract_ltlf, "(") = Count(result.contract_ltlf, ")")
        /\ _atoms_in(result.contract_ltlf) \subseteq Props
        /\ \A k \in 1..Len(Returned) : _atoms_in(Returned[k].ltlf) \subseteq Props

\* C7: with or without a parser, every descriptor whose formula string is
\* built is generated with that string and is returned, and the run goes on.
C7_ParserFailureKeepsConstraint ==
    /\ pc # "raised"
    /\ pc = "done" =>
          \A k \in 1..Len(Inputs) :
              LET d == Inputs[k]
              IN  (d.template \in supported /\ BuildString(d.template, d.activities).ok)
                  => \E j \in 1..Len(Returned) :
                        /\ Descriptor(Returned[j]) = d
                        /\ Returned[j].ltlf = BuildString(d.template, d.activities).s

\* C8: reclassifying the reclassified lists returns the same two lists.
C8_Idempotent ==
    Reclassified =>
        _auto_reclassify(A_gen, G_gen, environment, system) = <<A_gen, G_gen>>

\* both lists populated, one of them by a constraint that changed side
C8_Witness ==
    /\ pc = "compose"
    /\ Len(A_gen) = 1 /\ Len(G_gen) = 1
    /\ Len(guarantees) = 2

\* exactly_one as specified: the disjunction, in list order, of each
\* proposition conjoined with the negation of every other one
RECURSIVE OthersNegated(_, _, _)
OthersNegated(P, i, j) ==
    IF j > Len(P) THEN << >>
    ELSE (IF j = i THEN << >> ELSE <<" ", "&", "&", " ", "!">> \o P[j])
         \o OthersNegated(P, i, j + 1)

RECURSIVE Disjuncts(_, _)
Disjuncts(P, i) ==
    <<"(">> \o P[i] \o OthersNegated(P, i, 1) \o <<")">>
    \o (IF i = Len(P) THEN << >> ELSE <<" ", "|", "|", " ">> \o Disjuncts(P, i + 1))

\* C9 as stated: G(true) for the empty list, G(a) for the list of a alone,
\* and G of the disjunction otherwise.
C9_AsStated ==
    pc = "done" =>
        result.env_semantics =
            IF Len(environment) = 0 THEN <<"G", "(", "t", "r", "u", "e", ")">>
            ELSE IF Len(environment) = 1 THEN <<"G", "(">> \o environment[1] \o <<")">>
            ELSE <<"G", "(", "(">> \o Disjuncts(environment, 1) \o <<")", ")">>

\* C9 amended: G(true) for the empty list; otherwise G((d1 || ... || dn)),
\* each di in its own parentheses, so that the list of a alone gives G(((a))).
C9_SimpleTraceSemantics ==
    pc = "done" =>
        /\ result.env_semantics =
              IF Len(environment) = 0 THEN <<"G", "(", "t", "r", "u", "e", ")">>
              ELSE <<"G", "(", "(">> \o Disjuncts(environment, 1) \o <<")", ")">>
        /\ result.sys_semantics =
              IF Len(system) = 0 THEN <<"G", "(", "t", "r", "u", "e", ")">>
              ELSE <<"G", "(", "(">> \o Disjuncts(system, 1) \o <<")", ")">>
        /\ Len(environment) = 1 =>
              result.env_semantics =
                  <<"G", "(", "(", "(">> \o environment[1] \o <<")", ")", ")">>

\* the axioms of a singleton list and of a list of two
C9_Witness ==
    /\ pc = "done"
    /\ Len(environment) = 1
    /\ Len(system) = 2

RECURSIVE Disjunction(_)
Disjunction(P) ==
    IF Len(P) = 1 THEN P[1]
    ELSE P[1] \o <<" ", "|", "|", " ">> \o Disjunction(Tail(P))

\* C10 as stated: G(anyE -> X(anyS)) && G(anyS -> X(anyE)), anyE and anyS
\* the disjunctions in list order, the constant false for an empty list.
C10_AsStated ==
    pc = "done" =>
        LET anyE == IF Len(environment) = 0 THEN <<"f", "a", "l", "s", "e">>
                    ELSE Disjunction(environment)
            anyS == IF Len(system) = 0 THEN <<"f", "a", "l", "s", "e">>
                    ELSE Disjunction(system)
        IN  result.alternation =
                <<"G", "(">> \o anyE \o <<" ", "-", ">", " ", "X", "(">> \o anyS
                \o <<")", ")", " ", "&", "&", " ", "G", "(">> \o anyS
                \o <<" ", "-", ">", " ", "X", "(">> \o anyE \o <<")", ")">>

\* C10 amended: G((anyE) -> X(anyS)) && G((anyS) -> X(anyE)), anyE and anyS
\* the disjunctions in list order inside parentheses, the constant false for
\* an empty list; for two empty lists
\* G((false) -> X(false)) && G((false) -> X(false)).
C10_StrictAlternation ==
    pc = "done" =>
        LET anyE == IF Len(environment) = 0 THEN <<"f", "a", "l", "s", "e">>
                    ELSE <<"(">> \o Disjunction(environment) \o <<")">>
            anyS == IF Len(system) = 0 THEN <<"f", "a", "l", "s", "e">>
                    ELSE <<"(">> \o Disjunction(system) \o <<")">>
        IN  result.alternation =
                <<"G", "(", "(">> \o anyE \o <<")", " ", "-", ">", " ", "X", "(">>
                \o anyS \o <<")", ")", " ", "&", "&", " ", "G", "(", "(">> \o anyS
                \o <<")", " ", "-", ">", " ", "X", "(">> \o anyE \o <<")", ")">>

\* an empty list next to a list of two
C10_Witness ==
    /\ pc = "done"
    /\ Len(environment) = 0
    /\ Len(system) = 2

====
